---- MODULE Spec2Model ----
(***************************************************************************)
(* Model of src/activity.rs of rtimelog: the aggregation pass              *)
(* Activities::new_from_entries and the two Display implementations.       *)
(*                                                                         *)
(* Timestamps are whole seconds relative to an arbitrary epoch, durations  *)
(* are signed whole seconds.  Text (task labels, rendered output) is a     *)
(* sequence of one-character strings.  Option<T> is <<>> for None and      *)
(* <<v>> for Some(v).                                                      *)
(***************************************************************************)
EXTENDS Integers, Sequences, FiniteSets

VARIABLES entries, idx, activities, total_work, total_slack, prev_stop, pc,
          out, shown

vars == <<entries, idx, activities, total_work, total_slack, prev_stop, pc,
          out, shown>>

(* ---------------------------------------------------------------------- *)
(* Bounds and input alphabets                                              *)
(* ---------------------------------------------------------------------- *)

\* longest entry sequence handed to new_from_entries
MaxLen == 4

\* task labels: a slack label, and two work labels: a lone star, the empty
\* label
Tasks == { <<"*", "*", "t">>, <<"*">>, <<>> }

\* timestamps (seconds): 00:00:00, 00:59:30, 02:01:40
Stops == { 0, 3570, 7300 }

\* labels and timestamps of the two-entry logs used to exercise Display
DisplayTasks == { <<"c">>, <<"*", "*">> }

DisplayHours == { 0, 1, 9, 10, 23, 99, 100 }

DisplayMinutes == { 0, 1, 3, 9, 10, 59 }

DisplaySeconds == { 0, 1, 59 }

DisplayStops ==
  { 3600 * h + 60 * m + s : h \in DisplayHours, m \in DisplayMinutes,
                            s \in DisplaySeconds }

(* ---------------------------------------------------------------------- *)
(* chrono::Duration arithmetic and Rust integer operators                  *)
(* ---------------------------------------------------------------------- *)

\* Rust integer division: truncates toward zero
TruncDiv(a, b) == IF a >= 0 THEN a \div b ELSE -((-a) \div b)

\* Rust % on integers: remainder carrying the sign of the dividend
Rem(a, b) == a - b * TruncDiv(a, b)

\* Duration::num_hours
num_hours(d) == TruncDiv(d, 3600)

\* num_minutes rounding to the nearest minute instead of dropping the rest
num_minutes_rounded(d) == TruncDiv(IF d < 0 THEN d - 30 ELSE d + 30, 60)

\* Duration::num_minutes
num_minutes(d) == TruncDiv(d, 60)

\* a difference that refuses to go below zero
signed_duration_clamped(stop, earlier) ==
  IF stop < earlier THEN 0 ELSE stop - earlier

\* NaiveDateTime::signed_duration_since
signed_duration_since(stop, earlier) == stop - earlier

\* a prefix test that looks at the first character only
starts_with_first_char(s, prefix) ==
  /\ Len(s) >= 1
  /\ s[1] = prefix[1]

\* str::starts_with
starts_with(s, prefix) ==
  /\ Len(s) >= Len(prefix)
  /\ SubSeq(s, 1, Len(prefix)) = prefix

SlackMarker == <<"*", "*">>

(* ---------------------------------------------------------------------- *)
(* Text formatting                                                         *)
(* ---------------------------------------------------------------------- *)

DigitChar(n) == <<"0", "1", "2", "3", "4", "5", "6", "7", "8", "9">>[n + 1]

RECURSIVE Digits(_)
Digits(n) ==
  IF n < 10 THEN <<DigitChar(n)>>
  ELSE Digits(n \div 10) \o <<DigitChar(n % 10)>>

\* Display of an i64: decimal digits, minus sign for negatives
IntToString(n) == IF n < 0 THEN <<"-">> \o Digits(-n) ELSE Digits(n)

\* the {:>2} format spec: right-align in the given width, never truncate
PadLeft(s, w) ==
  IF Len(s) >= w THEN s ELSE [i \in 1..(w - Len(s)) |-> " "] \o s

\* impl fmt::Display for Activity
ActivityFmt(a) ==
  PadLeft(IntToString(num_hours(a.duration)), 2) \o <<" ", "h", " ">>
    \o PadLeft(IntToString(Rem(num_minutes(a.duration), 60)), 2)
    \o <<" ", "m", "i", "n", ":", " ">> \o a.name

RECURSIVE ActivityLines(_)
\* the writeln! loop over self.activities
ActivityLines(as) ==
  IF as = <<>> THEN <<>>
  ELSE ActivityFmt(Head(as)) \o <<"\n">> \o ActivityLines(Tail(as))

Separator == <<"-", "-", "-", "-", "-", "-", "-">>

WorkPrefix ==
  <<"T", "o", "t", "a", "l", " ", "w", "o", "r", "k", " ", "d", "o", "n", "e",
    ":", " ">>

SlackPrefix ==
  <<"T", "o", "t", "a", "l", " ", "s", "l", "a", "c", "k", "i", "n", "g",
    ":", " ">>

\* the totals formatted with the {:>2} fields of the Activity line
TotalFmtPadded(d) ==
  PadLeft(IntToString(num_hours(d)), 2) \o <<" ", "h", " ">>
    \o PadLeft(IntToString(Rem(num_minutes(d), 60)), 2)
    \o <<" ", "m", "i", "n">>

\* the "{} h {} min" part of the two total lines
TotalFmt(d) ==
  IntToString(num_hours(d)) \o <<" ", "h", " ">>
    \o IntToString(Rem(num_minutes(d), 60)) \o <<" ", "m", "i", "n">>

\* impl fmt::Display for Activities
ActivitiesFmt(as, work, slack) ==
  ActivityLines(as) \o Separator \o <<"\n">>
    \o WorkPrefix \o TotalFmt(work) \o <<"\n">>
    \o SlackPrefix \o TotalFmt(slack) \o <<"\n">>

(* ---------------------------------------------------------------------- *)
(* Activities::new_from_entries                                            *)
(* ---------------------------------------------------------------------- *)

Entry == [stop : Stops, task : Tasks]

SeqsUpTo(S, n) == UNION { [1..k -> S] : k \in 0..n }

\* activities.iter_mut().find(|a| a.name == entry.task): index of the first
\* match, 0 when there is none
FindActivity(as, task) ==
  IF \E i \in 1..Len(as) : as[i].name = task
  THEN CHOOSE i \in 1..Len(as) :
         /\ as[i].name = task
         /\ \A j \in 1..(i - 1) : as[j].name # task
  ELSE 0

\* a new Activity inserted at the front of the list
UpdateActivitiesPrepend(as, task, duration) ==
  LET i == FindActivity(as, task) IN
    IF i # 0
    THEN [as EXCEPT ![i].duration = as[i].duration + duration]
    ELSE << [name |-> task, duration |-> duration] >> \o as

\* the found Activity's duration overwritten instead of accumulated
UpdateActivitiesOverwrite(as, task, duration) ==
  LET i == FindActivity(as, task) IN
    IF i # 0
    THEN [as EXCEPT ![i].duration = duration]
    ELSE Append(as, [name |-> task, duration |-> duration])

\* the found Activity moved to the end of the list when it is updated
UpdateActivitiesMoveToEnd(as, task, duration) ==
  LET i == FindActivity(as, task) IN
    IF i # 0
    THEN SubSeq(as, 1, i - 1) \o SubSeq(as, i + 1, Len(as))
           \o << [name |-> task, duration |-> as[i].duration + duration] >>
    ELSE Append(as, [name |-> task, duration |-> duration])

\* the match on the find result: add to the found Activity or push a new one
UpdateActivities(as, task, duration) ==
  LET i == FindActivity(as, task) IN
    IF i # 0
    THEN [as EXCEPT ![i].duration = as[i].duration + duration]
    ELSE Append(as, [name |-> task, duration |-> duration])

\* every interval counted as slack, whatever the label
AddSlackAlways(slack, task, duration) == slack + duration

\* the slack branch of the classification
AddSlack(slack, task, duration) ==
  IF starts_with(task, SlackMarker) THEN slack + duration ELSE slack

\* the work branch of the classification
AddWork(work, task, duration) ==
  IF starts_with(task, SlackMarker) THEN work ELSE work + duration

\* the current values of the function's locals, as one record
Locals ==
  [activities |-> activities, total_work |-> total_work,
   total_slack |-> total_slack, prev_stop |-> prev_stop]

\* the let mut declarations before the loop
InitialLocals ==
  [activities |-> <<>>, total_work |-> 0, total_slack |-> 0,
   prev_stop |-> <<>>]

\* a loop body that also records the first entry's task, with no time
LoopBodyFirstCounted(st, entry) ==
  IF st.prev_stop = <<>>
  THEN [st EXCEPT !.prev_stop = << entry.stop >>,
                  !.activities = << [name |-> entry.task, duration |-> 0] >>]
  ELSE LET duration == signed_duration_since(entry.stop, st.prev_stop[1])
       IN [activities |->
             UpdateActivities(st.activities, entry.task, duration),
           total_work |-> AddWork(st.total_work, entry.task, duration),
           total_slack |-> AddSlack(st.total_slack, entry.task, duration),
           prev_stop |-> << entry.stop >>]

\* one execution of the body of `for entry in entries`
LoopBody(st, entry) ==
  IF st.prev_stop = <<>>
  THEN [st EXCEPT !.prev_stop = << entry.stop >>]
  ELSE LET duration == signed_duration_since(entry.stop, st.prev_stop[1])
       IN [activities |->
             UpdateActivities(st.activities, entry.task, duration),
           total_work |-> AddWork(st.total_work, entry.task, duration),
           total_slack |-> AddSlack(st.total_slack, entry.task, duration),
           prev_stop |-> << entry.stop >>]

RECURSIVE RunLoop(_, _)
\* the whole for loop, started with locals st on the remaining entries es
RunLoop(st, es) ==
  IF es = <<>> THEN st ELSE RunLoop(LoopBody(st, Head(es)), Tail(es))

\* Activities::new_from_entries as a function of its argument
new_from_entries(es) ==
  LET st == RunLoop(InitialLocals, es)
  IN [activities |-> st.activities, total_work |-> st.total_work,
      total_slack |-> st.total_slack]

\* state at function entry
Entered ==
  /\ idx = 0
  /\ activities = InitialLocals.activities
  /\ total_work = InitialLocals.total_work
  /\ total_slack = InitialLocals.total_slack
  /\ prev_stop = InitialLocals.prev_stop
  /\ pc = "loop"
  /\ out = <<>>
  /\ shown = <<>>

Init ==
  /\ entries \in SeqsUpTo(Entry, MaxLen)
  /\ Entered

\* a two-entry log, one of whose timestamps is the epoch
InitDisplay ==
  /\ \E s \in DisplayStops, t \in DisplayTasks, u \in DisplayTasks :
       \/ entries = << [stop |-> 0, task |-> u], [stop |-> s, task |-> t] >>
       \/ entries = << [stop |-> s, task |-> u], [stop |-> 0, task |-> t] >>
  /\ Entered

\* the iterator yields entry idx + 1 and the loop body runs on it
Iterate ==
  /\ pc = "loop"
  /\ idx < Len(entries)
  /\ LET st == LoopBody(Locals, entries[idx + 1])
     IN /\ activities' = st.activities
        /\ total_work' = st.total_work
        /\ total_slack' = st.total_slack
        /\ prev_stop' = st.prev_stop
  /\ idx' = idx + 1
  /\ UNCHANGED <<entries, pc, out, shown>>

\* loop iteration on the first entry: only records the start time
FirstEntry ==
  /\ prev_stop = <<>>
  /\ Iterate

\* loop iteration on every later entry: one interval is accounted
ProcessEntry ==
  /\ prev_stop # <<>>
  /\ Iterate

\* the iterator is exhausted: the Activities value is built and returned
Return ==
  /\ pc = "loop"
  /\ idx = Len(entries)
  /\ pc' = "done"
  /\ UNCHANGED <<entries, idx, activities, total_work, total_slack, prev_stop,
                 out, shown>>

\* format!("{}", a) for one Activity of the list
FmtActivity ==
  /\ pc = "done"
  /\ \E i \in 1..Len(activities) :
       /\ out' = ActivityFmt(activities[i])
       /\ shown' = <<"activity", i>>
  /\ UNCHANGED <<entries, idx, activities, total_work, total_slack, prev_stop,
                 pc>>

\* format!("{}", a) for the Activities value
FmtActivities ==
  /\ pc = "done"
  /\ out' = ActivitiesFmt(activities, total_work, total_slack)
  /\ shown' = <<"activities">>
  /\ UNCHANGED <<entries, idx, activities, total_work, total_slack, prev_stop,
                 pc>>

Next ==
  \/ FirstEntry
  \/ ProcessEntry
  \/ Return
  \/ FmtActivity
  \/ FmtActivities

Spec == Init /\ [][Next]_vars

SpecDisplay == InitDisplay /\ [][Next]_vars

TypeOK ==
  /\ idx \in 0..Len(entries)
  /\ pc \in {"loop", "done"}
  /\ Len(prev_stop) \in {0, 1}

(* ---------------------------------------------------------------------- *)
(* Vocabulary of the properties                                            *)
(* ---------------------------------------------------------------------- *)

\* stop[i] - stop[i-1], the interval closed by entry i (i >= 2)
Interval(i) == entries[i].stop - entries[i - 1].stop

RECURSIVE IntervalSum(_)
\* sum of the intervals of entries 2..n
IntervalSum(n) == IF n < 2 THEN 0 ELSE IntervalSum(n - 1) + Interval(n)

RECURSIVE LabelIntervalSum(_, _)
\* sum of the intervals of the entries 2..n labelled exactly `label`
LabelIntervalSum(label, n) ==
  IF n < 2 THEN 0
  ELSE LabelIntervalSum(label, n - 1)
         + (IF entries[n].task = label THEN Interval(n) ELSE 0)

RECURSIVE DurationSum(_, _)
\* sum of the durations of the Activity records at the positions in S
DurationSum(as, S) ==
  IF S = {} THEN 0
  ELSE LET i == CHOOSE j \in S : TRUE
       IN as[i].duration + DurationSum(as, S \ {i})

\* the label begins with two stars
IsSlackName(name) == Len(name) >= 2 /\ name[1] = "*" /\ name[2] = "*"

\* position (among entries 2..n) of the first entry carrying the label
FirstOccurrence(label) ==
  CHOOSE i \in 2..Len(entries) :
    /\ entries[i].task = label
    /\ \A j \in 2..(i - 1) : entries[j].task # label

\* the value returned by the pass
Result ==
  [activities |-> activities, total_work |-> total_work,
   total_slack |-> total_slack]

\* the input with the task label of its first entry replaced
WithFirstTask(es, t) == [es EXCEPT ![1].task = t]

\* whole hours and whole minutes of a signed span of seconds, fraction
\* dropped (toward zero)
Magnitude(d) == IF d < 0 THEN -d ELSE d

WholeHours(d) ==
  IF d < 0 THEN -(Magnitude(d) \div 3600) ELSE Magnitude(d) \div 3600

WholeMinutes(d) ==
  IF d < 0 THEN -(Magnitude(d) \div 60) ELSE Magnitude(d) \div 60

DigitValue(c) ==
  CASE c = "0" -> 0 [] c = "1" -> 1 [] c = "2" -> 2 [] c = "3" -> 3
    [] c = "4" -> 4 [] c = "5" -> 5 [] c = "6" -> 6 [] c = "7" -> 7
    [] c = "8" -> 8 [] c = "9" -> 9

IsDigit(c) == c \in {"0", "1", "2", "3", "4", "5", "6", "7", "8", "9"}

\* a decimal numeral: digits, optionally preceded by a minus sign
IsNumeral(s) ==
  /\ Len(s) >= 1
  /\ \A i \in 2..Len(s) : IsDigit(s[i])
  /\ \/ IsDigit(s[1])
     \/ s[1] = "-" /\ Len(s) >= 2

RECURSIVE DigitsValue(_)
DigitsValue(s) ==
  IF s = <<>> THEN 0
  ELSE 10 * DigitsValue(SubSeq(s, 1, Len(s) - 1)) + DigitValue(s[Len(s)])

NumeralValue(s) ==
  IF s[1] = "-" THEN -DigitsValue(Tail(s)) ELSE DigitsValue(s)

\* f shows the number v right-aligned in width w: blanks, then the numeral
\* of v; blanks only as far as needed to reach the width, nothing cut off
ShowsPadded(f, v, w) ==
  \E n \in 0..Len(f) :
    LET numeral == SubSeq(f, n + 1, Len(f))
    IN /\ \A i \in 1..n : f[i] = " "
       /\ IsNumeral(numeral)
       /\ NumeralValue(numeral) = v
       /\ Len(f) = IF Len(numeral) >= w THEN Len(numeral) ELSE w

\* f shows the number v as a bare numeral
ShowsUnpadded(f, v) == IsNumeral(f) /\ NumeralValue(f) = v

HourMark == <<" ", "h", " ">>

\* the ways to read text as "<hours> h <minutes><rest>" with both fields
\* non-empty, each given by the length of its hour field
HourMinuteFields(text, rest) ==
  { p \in 1..Len(text) :
      /\ p + Len(HourMark) + 1 + Len(rest) <= Len(text)
      /\ SubSeq(text, p + 1, p + Len(HourMark)) = HourMark
      /\ SubSeq(text, Len(text) - Len(rest) + 1, Len(text)) = rest }

HourField(text, p) == SubSeq(text, 1, p)

MinuteField(text, p, rest) ==
  SubSeq(text, p + Len(HourMark) + 1, Len(text) - Len(rest))

\* the minute value a rendering of d may show: what is left of the whole
\* minutes after the whole hours, carrying the sign of d
MinutesPastHour(d) == WholeMinutes(d) - 60 * WholeHours(d)

\* what follows the minute field in the line of an Activity
AfterMinutes(name) == <<" ", "m", "i", "n", ":", " ">> \o name

\* text is the line of Activity a
IsActivityLine(text, a) ==
  \E p \in HourMinuteFields(text, AfterMinutes(a.name)) :
    /\ ShowsPadded(HourField(text, p), WholeHours(a.duration), 2)
    /\ ShowsPadded(MinuteField(text, p, AfterMinutes(a.name)),
                   MinutesPastHour(a.duration), 2)

\* the number a field shows, its padding ignored
FieldValue(f) == NumeralValue(SelectSeq(f, LAMBDA c : c # " "))

\* text is `<prefix><H> h <M> min` for the total d, H and M unpadded
IsTotalLine(text, prefix, d) ==
  /\ Len(text) > Len(prefix)
  /\ SubSeq(text, 1, Len(prefix)) = prefix
  /\ LET body == SubSeq(text, Len(prefix) + 1, Len(text))
     IN \E p \in HourMinuteFields(body, <<" ", "m", "i", "n">>) :
          /\ ShowsUnpadded(HourField(body, p), WholeHours(d))
          /\ ShowsUnpadded(MinuteField(body, p, <<" ", "m", "i", "n">>),
                           MinutesPastHour(d))

RECURSIVE SplitLines(_)
\* the lines of a text, each ended by a newline; an unterminated rest
\* counts as a further line
SplitLines(text) ==
  IF text = <<>> THEN <<>>
  ELSE IF \E i \in 1..Len(text) : text[i] = "\n"
       THEN LET n == CHOOSE i \in 1..Len(text) :
                       /\ text[i] = "\n"
                       /\ \A j \in 1..(i - 1) : text[j] # "\n"
            IN <<SubSeq(text, 1, n - 1)>>
                 \o SplitLines(SubSeq(text, n + 1, Len(text)))
       ELSE <<text>>

SevenDashes == [i \in 1..7 |-> "-"]

WorkLineStart ==
  <<"T", "o", "t", "a", "l", " ", "w", "o", "r", "k", " ", "d", "o", "n", "e",
    ":", " ">>

SlackLineStart ==
  <<"T", "o", "t", "a", "l", " ", "s", "l", "a", "c", "k", "i", "n", "g",
    ":", " ">>

\* the Activity whose rendering is in `out`
ShownActivity == activities[shown[2]]

ActivityShown == Len(shown) = 2

ActivitiesShown == Len(shown) = 1

\* some Activity of the list carries the name
HasName(as, name) == \E k \in DOMAIN as : as[k].name = name

\* this step runs the loop body on an entry after the first
ProcessesLaterEntry == pc = "loop" /\ idx >= 1 /\ idx' = idx + 1

\* the entry such a step processes
Processed == entries[idx + 1]

\* every Activity already in the list keeps its position and name, and its
\* duration grows by `added` if it carries the name and stays as it is
\* otherwise
KeptExcept(name, added) ==
  /\ Len(activities') >= Len(activities)
  /\ \A k \in DOMAIN activities :
       /\ activities'[k].name = activities[k].name
       /\ activities'[k].duration
            = activities[k].duration
                + (IF activities[k].name = name THEN added ELSE 0)

\* one Activity with the name and the duration is appended, or none is
AppendedIfNew(name, duration) ==
  IF HasName(activities, name)
  THEN Len(activities') = Len(activities)
  ELSE /\ Len(activities') = Len(activities) + 1
       /\ activities'[Len(activities')] = [name |-> name, duration |-> duration]

(* ---------------------------------------------------------------------- *)
(* Properties                                                              *)
(* ---------------------------------------------------------------------- *)

\* C1: after every processed entry, total_work + total_slack equals the sum
\* of the intervals of the entries processed so far (entries 2..idx), and
\* the durations of all Activity records add up to that same total.
C1_TotalsDecompose ==
  /\ total_work + total_slack = IntervalSum(idx)
  /\ DurationSum(activities, DOMAIN activities) = IntervalSum(idx)

C1_Witness ==
  /\ pc = "done"
  /\ Len(entries) = 4
  /\ total_work # 0
  /\ total_slack # 0
  /\ Len(activities) = 3
  /\ IntervalSum(4) # 0

\* C2: the names of the returned activity list are the task labels of
\* entries 2..n without duplicates, in order of first appearance.
C2_FirstOccurrenceOrder ==
  pc = "done" =>
    /\ \A i \in 2..Len(entries) :
         \E k \in DOMAIN activities : activities[k].name = entries[i].task
    /\ \A k \in DOMAIN activities :
         \E i \in 2..Len(entries) : entries[i].task = activities[k].name
    /\ \A k1, k2 \in DOMAIN activities :
         k1 # k2 => activities[k1].name # activities[k2].name
    /\ \A k1, k2 \in DOMAIN activities :
         k1 < k2 <=> FirstOccurrence(activities[k1].name)
                       < FirstOccurrence(activities[k2].name)

C2_Witness ==
  /\ pc = "done"
  /\ Len(entries) = 4
  /\ entries[2].task = entries[4].task
  /\ entries[3].task # entries[2].task
  /\ entries[1].task = entries[3].task
  /\ Len(activities) = 2
  /\ activities[1].name = entries[2].task
  /\ activities[2].name = entries[3].task

\* C3: each returned Activity's duration is the sum of the intervals of all
\* entries 2..n whose label equals its name, contiguous or not.
C3_DurationPerLabel ==
  pc = "done" =>
    \A k \in DOMAIN activities :
      activities[k].duration
        = LabelIntervalSum(activities[k].name, Len(entries))

C3_Witness ==
  /\ pc = "done"
  /\ Len(entries) = 4
  /\ entries[2].task = entries[4].task
  /\ entries[3].task # entries[2].task
  /\ Interval(2) > 0
  /\ Interval(3) >= 0
  /\ Interval(4) > 0
  /\ activities[1].duration = Interval(2) + Interval(4)
  /\ activities[2].duration = Interval(3)

\* C4: total_slack is the sum of the durations of the Activities whose name
\* starts with `**`, total_work the sum of the durations of all others.
C4_SlackClassification ==
  pc = "done" =>
    /\ total_slack
         = DurationSum(activities,
             { k \in DOMAIN activities : IsSlackName(activities[k].name) })
    /\ total_work
         = DurationSum(activities,
             { k \in DOMAIN activities : ~IsSlackName(activities[k].name) })

C4_Witness ==
  /\ pc = "done"
  /\ total_slack > 0
  /\ total_work > 0
  /\ \E k \in DOMAIN activities :
       activities[k].name = <<"*">> /\ activities[k].duration > 0
  /\ \E k \in DOMAIN activities :
       IsSlackName(activities[k].name) /\ activities[k].duration > 0

\* C5: an empty sequence or a sequence of exactly one entry yields an empty
\* activity list and both totals zero.
C5_EmptyOrSingleton ==
  (pc = "done" /\ Len(entries) <= 1) =>
    /\ activities = <<>>
    /\ total_work = 0
    /\ total_slack = 0

C5_Witness ==
  /\ pc = "done"
  /\ Len(entries) = 1
  /\ IsSlackName(entries[1].task)
  /\ entries[1].stop # 0

\* C6: two inputs that differ only in the task label of their first entry
\* give the same activity list and the same totals.
C6_FirstLabelDiscarded ==
  (pc = "done" /\ Len(entries) >= 1) =>
    \A t \in Tasks : new_from_entries(WithFirstTask(entries, t)) = Result

C6_Witness ==
  /\ pc = "done"
  /\ Len(entries) = 3
  /\ IsSlackName(entries[1].task)
  /\ entries[3].task = entries[1].task
  /\ ~IsSlackName(entries[2].task)
  /\ total_work # 0
  /\ total_slack # 0

\* C7 (as amended): the line of an Activity shows the whole hours of d and
\* the whole minutes of d past those hours, fractions dropped, each
\* right-aligned in width 2 and widened when longer; 60 * hours + minutes is
\* the whole number of minutes of d for every d; the minute field is in
\* 0..59 when d >= 0 and in -59..0 when d < 0.
C7_ActivityLine ==
  ActivityShown =>
    /\ IsActivityLine(out, ShownActivity)
    /\ \A p \in HourMinuteFields(out, AfterMinutes(ShownActivity.name)) :
         LET h == FieldValue(HourField(out, p))
             m == FieldValue(MinuteField(out, p,
                                         AfterMinutes(ShownActivity.name)))
         IN /\ 60 * h + m = WholeMinutes(ShownActivity.duration)
            /\ ShownActivity.duration >= 0 => m \in 0..59
            /\ ShownActivity.duration < 0 => m \in -59..0

C7_Witness ==
  /\ shown = <<"activity", 1>>
  /\ activities[1].duration = 100 * 3600 + 59 * 60 + 59
  /\ out = <<"1", "0", "0", " ", "h", " ", "5", "9", " ", "m", "i", "n", ":",
             " ", "c">>

\* C7 (as stated): as above, but the minute field is in 0..59 for every d.
C7_MinuteFieldAlwaysInRange ==
  ActivityShown =>
    \A p \in HourMinuteFields(out, AfterMinutes(ShownActivity.name)) :
      LET h == FieldValue(HourField(out, p))
          m == FieldValue(MinuteField(out, p,
                                      AfterMinutes(ShownActivity.name)))
      IN /\ 60 * h + m = WholeMinutes(ShownActivity.duration)
         /\ m \in 0..59

\* C8: the report consists of the k activity lines in list order, one line
\* of seven dashes, the work line and the slack line with unpadded hours and
\* minutes; the dashes occur nowhere else and nothing follows the slack line.
C8_ReportLayout ==
  ActivitiesShown =>
    LET lines == SplitLines(out)
        k == Len(activities)
    IN /\ out[Len(out)] = "\n"
       /\ Len(lines) = k + 3
       /\ \A i \in 1..k : IsActivityLine(lines[i], activities[i])
       /\ lines[k + 1] = SevenDashes
       /\ \A i \in 1..(k + 3) : lines[i] = SevenDashes => i = k + 1
       /\ IsTotalLine(lines[k + 2], WorkLineStart, total_work)
       /\ IsTotalLine(lines[k + 3], SlackLineStart, total_slack)

C8_Witness ==
  /\ ActivitiesShown
  /\ Len(activities) = 2
  /\ total_work = 3570
  /\ total_slack = 3730
  /\ SplitLines(out)[4]
       = WorkLineStart \o <<"0", " ", "h", " ", "5", "9", " ", "m", "i", "n">>
  /\ SplitLines(out)[5]
       = SlackLineStart \o <<"1", " ", "h", " ", "2", " ", "m", "i", "n">>

\* C9: the pass never rejects or skips an entry: every step of the loop
\* consumes the next entry and the exhausted loop returns; an interval that
\* is negative (decreasing timestamps) is added as it is to the matching
\* total and to the matching Activity; a zero interval (repeated timestamp)
\* still creates or keeps the Activity and leaves both totals unchanged.
C9_NoValidation ==
  [][ /\ (pc = "loop" /\ idx < Len(entries)) =>
           (idx' = idx + 1 /\ pc' = "loop")
      /\ (pc = "loop" /\ idx = Len(entries)) => pc' = "done"
      /\ (ProcessesLaterEntry /\ Interval(idx + 1) < 0) =>
           /\ IF IsSlackName(Processed.task)
              THEN total_slack' = total_slack + Interval(idx + 1)
              ELSE total_work' = total_work + Interval(idx + 1)
           /\ KeptExcept(Processed.task, Interval(idx + 1))
           /\ AppendedIfNew(Processed.task, Interval(idx + 1))
      /\ (ProcessesLaterEntry /\ Interval(idx + 1) = 0) =>
           /\ total_slack' = total_slack
           /\ total_work' = total_work
           /\ HasName(activities', Processed.task)
           /\ KeptExcept(Processed.task, 0)
           /\ AppendedIfNew(Processed.task, 0)
    ]_vars

C9_Witness ==
  /\ pc = "done"
  /\ Len(entries) = 3
  /\ entries[2].stop < entries[1].stop
  /\ entries[3].stop = entries[2].stop
  /\ entries[2].task = <<>>
  /\ IsSlackName(entries[3].task)
  /\ total_work = Interval(2)
  /\ total_work < 0
  /\ total_slack = 0
  /\ activities = << [name |-> <<>>, duration |-> Interval(2)],
                     [name |-> entries[3].task, duration |-> 0] >>

\* C10 (as amended): every processed entry after the first changes at most
\* one Activity: it appends one new Activity, holding the interval, at the
\* end of the list when no Activity has that name, and otherwise adds the
\* interval to the duration of the one Activity with that name; every other
\* Activity keeps name, position and duration, none is removed or
\* reordered; the interval is added to exactly one of total_work and
\* total_slack and the other is unchanged (a zero interval changes neither);
\* after the pass the list and the totals no longer change.
C10_OneActivityPerEntry ==
  [][ /\ ProcessesLaterEntry =>
           /\ KeptExcept(Processed.task, Interval(idx + 1))
           /\ AppendedIfNew(Processed.task, Interval(idx + 1))
           /\ Cardinality({ k \in DOMAIN activities' :
                              activities'[k].name = Processed.task }) = 1
           /\ \/ /\ total_work' = total_work + Interval(idx + 1)
                 /\ total_slack' = total_slack
              \/ /\ total_slack' = total_slack + Interval(idx + 1)
                 /\ total_work' = total_work
      /\ pc = "done" =>
           /\ activities' = activities
           /\ total_work' = total_work
           /\ total_slack' = total_slack
    ]_vars

C10_Witness ==
  /\ pc = "loop"
  /\ idx = 4
  /\ entries[4].task = entries[2].task
  /\ entries[3].task # entries[2].task
  /\ Interval(2) > 0
  /\ Interval(3) > 0
  /\ Interval(4) = 0
  /\ Len(activities) = 2
  /\ activities[1].duration = Interval(2)
  /\ total_work + total_slack = Interval(2) + Interval(3)

\* C10 (as stated), on inputs whose timestamps never decrease: every
\* processed entry after the first appends one new Activity or increases
\* the duration of the one existing Activity with that name, all other
\* Activities are kept, and exactly one of total_work, total_slack changes.
C10_ExactlyOneTotalChanges ==
  [][ (ProcessesLaterEntry /\ Interval(idx + 1) >= 0) =>
        /\ KeptExcept(Processed.task, Interval(idx + 1))
        /\ AppendedIfNew(Processed.task, Interval(idx + 1))
        /\ \A k \in DOMAIN activities :
             activities[k].name = Processed.task =>
               activities'[k].duration > activities[k].duration
        /\ (total_work' # total_work) # (total_slack' # total_slack)
    ]_vars

====
